---------------------------- MODULE Spec2Model ----------------------------
(* A model of the image-reference rewrite engine of optimize-markdown.js   *)
(* (class MarkdownOptimizer).  Documents are strings; offsets are 0-based  *)
(* as in JavaScript.  The regular expressions of the source are modelled   *)
(* by matchers that follow the regex engine's leftmost, greedy,            *)
(* backtracking semantics.                                                 *)
EXTENDS Integers, Sequences, FiniteSets, TLC

VARIABLES
    options,           \* this.options
    stats,             \* this.stats
    pc,                \* "idle", or "returned" when a call has just returned
    content,           \* the argument of the optimizeImageReferences call
    images,            \* its local images: what analyzeImages(content) gave
    optimizedContent,  \* the string it returned
    statsAtCall,       \* this.stats as it was when the call began
    unit,              \* a direct call of one other method, and its result
    disk,              \* the markdown files under ./1earn: the text of each
    backups,           \* the copies createBackup has made, in order
    console,           \* what processFile has logged, in order
    files,             \* the local files of run: what findMarkdownFiles gave
    fileIndex          \* the position of run's for loop in files

vars == <<options, stats, pc, content, images, optimizedContent, statsAtCall,
          unit, disk, backups, console, files, fileIndex>>

\* the state of a run over the files, which a call of one method leaves alone
runVars == <<disk, backups, console, files, fileIndex>>

-----------------------------------------------------------------------------
(* Bounds of the model.                                                    *)

\* the number of fragments a document is built from
MaxFrags == 3

\* optimizeImageReferences is called while stats.imagesOptimized is below this
MaxOptimized == 2

\* the number of markdown files run finds is at most this
MaxFiles == 2

\* the number of fragments of a document that is optimized a second time
MaxPassFrags == 2

-----------------------------------------------------------------------------
(* JavaScript string primitives.                                           *)

Min(S) == CHOOSE x \in S : \A y \in S : x <= y

Max(S) == CHOOSE x \in S : \A y \in S : x >= y

\* s.charAt(i): "" when i is out of range
charAt(s, i) == IF i >= 0 /\ i < Len(s) THEN SubSeq(s, i + 1, i + 1) ELSE ""

\* an index argument of slice: negative counts from the end, then clamped
sliceIndex(s, i) == IF i < 0 THEN Max({Len(s) + i, 0}) ELSE Min({i, Len(s)})

\* s.slice(from, to)
slice(s, from, to) == SubSeq(s, sliceIndex(s, from) + 1, sliceIndex(s, to))

\* s.slice(from)
sliceFrom(s, from) == slice(s, from, Len(s))

\* s.indexOf(sub, from): -1 when sub does not occur at or after from
indexOf(s, sub, from) ==
    LET hits == {i \in from .. (Len(s) - Len(sub)) :
                    SubSeq(s, i + 1, i + Len(sub)) = sub}
    IN  IF hits = {} THEN -1 ELSE Min(hits)

\* s.includes(sub)
includes(s, sub) == indexOf(s, sub, 0) # -1

\* s.startsWith(sub)
startsWith(s, sub) == Len(sub) <= Len(s) /\ SubSeq(s, 1, Len(sub)) = sub

\* s.replace(sub, by) with a string pattern: the first occurrence only
replaceFirst(s, sub, by) ==
    LET i == indexOf(s, sub, 0)
    IN  IF i = -1 THEN s
        ELSE slice(s, 0, i) \o by \o sliceFrom(s, i + Len(sub))

UpperLetters == "ABCDEFGHIJKLMNOPQRSTUVWXYZ"

LowerLetters == "abcdefghijklmnopqrstuvwxyz"

\* c.toLowerCase() of one character
toLowerChar(c) ==
    IF c = "" \/ ~includes(UpperLetters, c) THEN c
    ELSE charAt(LowerLetters, indexOf(UpperLetters, c, 0))

\* c.toUpperCase() of one character
toUpperChar(c) ==
    IF c = "" \/ ~includes(LowerLetters, c) THEN c
    ELSE charAt(UpperLetters, indexOf(LowerLetters, c, 0))

RECURSIVE toLowerCase(_)
\* s.toLowerCase(): what the i flag of a regex compares
toLowerCase(s) ==
    IF Len(s) <= 1 THEN toLowerChar(s)
    ELSE toLowerCase(slice(s, 0, Len(s) \div 2))
         \o toLowerCase(sliceFrom(s, Len(s) \div 2))

\* the class \s of a regex, over the characters documents are written in
isSpace(c) == c \in {" ", "\n", "\t", "\r"}

RECURSIVE trim(_)
\* s.trim()
trim(s) ==
    IF s = "" THEN ""
    ELSE IF isSpace(charAt(s, 0)) THEN trim(sliceFrom(s, 1))
    ELSE IF isSpace(charAt(s, Len(s) - 1)) THEN trim(slice(s, 0, Len(s) - 1))
    ELSE s

-----------------------------------------------------------------------------
(* analyzeImages: the two regular expressions and their exec loops.        *)

\* the value exec returns when the pattern matches nowhere
NoMatch == [found |-> FALSE]

\* imageRegexAt with the path span written [^)]* : an empty path matches
imageRegexAtEmptyPath(s, p) ==
    IF charAt(s, p) # "!" \/ charAt(s, p + 1) # "[" THEN NoMatch
    ELSE LET close == indexOf(s, "]", p + 2)
             paren == IF close = -1 THEN -1 ELSE indexOf(s, ")", close + 2)
         IN  IF close = -1 \/ charAt(s, close + 1) # "(" \/ paren = -1
             THEN NoMatch
             ELSE [found |-> TRUE, index |-> p, end |-> paren + 1,
                   alt |-> slice(s, p + 2, close),
                   src |-> slice(s, close + 2, paren)]

\* imageRegex /!\[([^\]]*)\]\(([^)]+)\)/ tried at position p: the alt span
\* runs to the first "]", the path span to the first ")" and is not empty
imageRegexAt(s, p) ==
    IF charAt(s, p) # "!" \/ charAt(s, p + 1) # "[" THEN NoMatch
    ELSE LET close == indexOf(s, "]", p + 2)
             paren == IF close = -1 THEN -1 ELSE indexOf(s, ")", close + 2)
         IN  IF close = -1 \/ charAt(s, close + 1) # "(" \/ paren = -1
                \/ paren < close + 3
             THEN NoMatch
             ELSE [found |-> TRUE, index |-> p, end |-> paren + 1,
                   alt |-> slice(s, p + 2, close),
                   src |-> slice(s, close + 2, paren)]

\* imageRegex.exec(content) with lastIndex: the leftmost match at or after it
imageRegexExec(s, lastIndex) ==
    LET starts == {p \in lastIndex .. (Len(s) - 1) : imageRegexAt(s, p).found}
    IN  IF starts = {} THEN NoMatch ELSE imageRegexAt(s, Min(starts))

RECURSIVE skipSpaces(_, _)
\* where a greedy \s* that starts at k ends
skipSpaces(s, k) == IF isSpace(charAt(s, k)) THEN skipSpaces(s, k + 1) ELSE k

\* where a greedy [^"']* that starts at k ends: the next quote, or -1
nextQuote(s, k) ==
    LET quotes == {i \in k .. (Len(s) - 1) : charAt(s, i) \in {"\"", "'"}}
    IN  IF quotes = {} THEN -1 ELSE Min(quotes)

\* the tail src\s*=\s*["']([^"']+)["'][^>]*> of htmlImageRegex tried at j
htmlSrcAt(s, j) ==
    IF toLowerChar(charAt(s, j)) # "s" \/ toLowerCase(slice(s, j, j + 3)) # "src"
    THEN NoMatch
    ELSE LET afterSrc == skipSpaces(s, j + 3)
             afterEq  == skipSpaces(s, afterSrc + 1)
             closeQ   == nextQuote(s, afterEq + 1)
             gt       == IF closeQ = -1 THEN -1 ELSE indexOf(s, ">", closeQ + 1)
         IN  IF charAt(s, afterSrc) # "=" \/ charAt(s, afterEq) \notin {"\"", "'"}
                \/ closeQ = -1 \/ closeQ < afterEq + 2 \/ gt = -1
             THEN NoMatch
             ELSE [found |-> TRUE, end |-> gt + 1,
                   src |-> slice(s, afterEq + 1, closeQ)]

\* the backtracking of the greedy [^>]*: the tail is tried at high, then at
\* high - 1, down to low, and the first try that matches stands
lastSrcAt(s, high, low) ==
    LET starts == {j \in low .. high : htmlSrcAt(s, j).found}
    IN  IF starts = {} THEN NoMatch ELSE htmlSrcAt(s, Max(starts))

\* htmlImageRegex /<img\s+[^>]*src\s*=\s*["']([^"']+)["'][^>]*>/i tried at p:
\* the greedy [^>]* gives way from the right, so the last src attribute
\* before the first ">" that completes the pattern is the one captured
htmlImageRegexAt(s, p) ==
    IF charAt(s, p) # "<" \/ toLowerCase(slice(s, p, p + 4)) # "<img"
       \/ ~isSpace(charAt(s, p + 4))
    THEN NoMatch
    ELSE LET gt    == indexOf(s, ">", p + 4)
             limit == IF gt = -1 THEN Len(s) ELSE gt
             m     == lastSrcAt(s, limit - 1, p + 5)
         IN  IF ~m.found THEN NoMatch
             ELSE [found |-> TRUE, index |-> p, end |-> m.end, src |-> m.src]

\* htmlImageRegex.exec(content) with lastIndex
htmlImageRegexExec(s, lastIndex) ==
    LET starts == {p \in lastIndex .. (Len(s) - 1) : htmlImageRegexAt(s, p).found}
    IN  IF starts = {} THEN NoMatch ELSE htmlImageRegexAt(s, Min(starts))

RECURSIVE markdownImagesRelativeIndex(_, _)
\* markdownImages with each offset counted from where the search resumed
markdownImagesRelativeIndex(s, lastIndex) ==
    LET match == imageRegexExec(s, lastIndex)
    IN  IF ~match.found THEN <<>>
        ELSE <<[type |-> "markdown", full |-> slice(s, match.index, match.end),
                alt |-> match.alt, src |-> match.src,
                index |-> match.index - lastIndex]>>
             \o markdownImagesRelativeIndex(s, match.end)

RECURSIVE markdownImages(_, _)
\* the first while loop of analyzeImages, from lastIndex on
markdownImages(s, lastIndex) ==
    LET match == imageRegexExec(s, lastIndex)
    IN  IF ~match.found THEN <<>>
        ELSE <<[type |-> "markdown", full |-> slice(s, match.index, match.end),
                alt |-> match.alt, src |-> match.src, index |-> match.index]>>
             \o markdownImages(s, match.end)

RECURSIVE htmlImages(_, _)
\* the second while loop of analyzeImages, from lastIndex on
htmlImages(s, lastIndex) ==
    LET match == htmlImageRegexExec(s, lastIndex)
    IN  IF ~match.found THEN <<>>
        ELSE <<[type |-> "html", full |-> slice(s, match.index, match.end),
                src |-> match.src, index |-> match.index]>>
             \o htmlImages(s, match.end)

\* analyzeImages with the two lists merged in the order of their offsets
analyzeImagesInDocumentOrder(s) ==
    SortSeq(markdownImages(s, 0) \o htmlImages(s, 0),
            LAMBDA a, b : a.index < b.index)

\* analyzeImages(content): the markdown matches, then the HTML matches
analyzeImages(s) == markdownImages(s, 0) \o htmlImages(s, 0)

-----------------------------------------------------------------------------
(* The rewriters.                                                          *)

\* webpPath with the pattern's $ anchor lost: the first .png, .jpg or .jpeg
\* anywhere in the path is replaced
webpPathUnanchored(src) ==
    LET low  == toLowerCase(src)
        hits == {i \in 0 .. (Len(src) - 4) :
                    slice(low, i, i + 4) \in {".png", ".jpg", ".jpe"}
                    /\ (slice(low, i, i + 4) = ".jpe" => slice(low, i, i + 5) = ".jpeg")}
        at   == Min(hits)
        len  == IF slice(low, at, at + 5) = ".jpeg" THEN 5 ELSE 4
    IN  IF hits = {} THEN src
        ELSE slice(src, 0, at) \o ".webp" \o sliceFrom(src, at + len)

\* src.replace(/\.(png|jpg|jpeg)$/i, '.webp')
webpPath(src) ==
    LET n == Len(src)
    IN  IF n >= 4 /\ toLowerCase(slice(src, n - 4, n)) \in {".png", ".jpg"}
        THEN slice(src, 0, n - 4) \o ".webp"
        ELSE IF n >= 5 /\ toLowerCase(slice(src, n - 5, n)) = ".jpeg"
        THEN slice(src, 0, n - 5) \o ".webp"
        ELSE src

\* stripAltPrefix with the pattern's ^ anchor lost: the first phrase found
\* anywhere in the alt text is removed
stripAltPrefixAnywhere(alt) ==
    LET low   == toLowerCase(alt)
        heads == {h \o " " \o t \o " " :
                     h \in {"image", "picture", "photo", "screenshot"},
                     t \in {"of", "showing"}}
        hit   == {h \in heads : includes(low, h)}
        first == CHOOSE h \in hit :
                     \A g \in hit : indexOf(low, h, 0) <= indexOf(low, g, 0)
    IN  IF hit = {} THEN alt
        ELSE slice(alt, 0, indexOf(low, first, 0))
             \o sliceFrom(alt, indexOf(low, first, 0) + Len(first))

\* alt.replace(/^(image|picture|photo|screenshot) (of|showing) /i, '')
stripAltPrefix(alt) ==
    LET low   == toLowerCase(alt)
        heads == {h \o " " \o t \o " " :
                     h \in {"image", "picture", "photo", "screenshot"},
                     t \in {"of", "showing"}}
        hit   == {h \in heads : startsWith(low, h)}
    IN  IF hit = {} THEN alt ELSE sliceFrom(alt, Len(CHOOSE h \in hit : TRUE))

\* stripAltExtension with the pattern's i flag lost: lower-case endings only
stripAltExtensionCaseSensitive(alt) ==
    LET n == Len(alt)
    IN  IF n >= 4 /\ slice(alt, n - 4, n) \in {".png", ".jpg", ".gif"}
        THEN slice(alt, 0, n - 4)
        ELSE IF n >= 5 /\ slice(alt, n - 5, n) = ".jpeg"
        THEN slice(alt, 0, n - 5)
        ELSE alt

\* alt.replace(/\.(png|jpg|jpeg|gif)$/i, '')
stripAltExtension(alt) ==
    LET n == Len(alt)
    IN  IF n >= 4 /\ toLowerCase(slice(alt, n - 4, n)) \in {".png", ".jpg", ".gif"}
        THEN slice(alt, 0, n - 4)
        ELSE IF n >= 5 /\ toLowerCase(slice(alt, n - 5, n)) = ".jpeg"
        THEN slice(alt, 0, n - 5)
        ELSE alt

\* optimizeAltText trimming first, before the prefix and the ending are looked for
optimizeAltTextTrimFirst(alt) ==
    IF alt = "" \/ ~options.optimizeAltText THEN alt
    ELSE LET optimized == stripAltExtension(stripAltPrefix(trim(alt)))
         IN  IF optimized # ""
             THEN toUpperChar(charAt(optimized, 0)) \o sliceFrom(optimized, 1)
             ELSE optimized

\* optimizeAltText(alt) for a string alt
optimizeAltText(alt) ==
    IF alt = "" \/ ~options.optimizeAltText THEN alt
    ELSE LET optimized == trim(stripAltExtension(stripAltPrefix(alt)))
         IN  IF optimized # ""
             THEN toUpperChar(charAt(optimized, 0)) \o sliceFrom(optimized, 1)
             ELSE optimized

\* the JavaScript value undefined: an argument that was not passed
undefined == [type |-> "undefined"]

\* the string s as a JavaScript value
string(s) == [type |-> "string", value |-> s]

\* optimizeAltText(alt) for any argument: !alt holds of undefined and of "",
\* and the argument is returned as it is
optimizeAltTextOf(alt) ==
    IF alt = undefined THEN alt ELSE string(optimizeAltText(alt.value))

\* isAssetImage testing for assets/ with no slash before it
isAssetImageNoLeadingSlash(src) == includes(src, "assets/")

\* the test of optimizeMarkdownImage for a path into an assets directory
isAssetImage(src) ==
    \/ startsWith(src, "./assets/")
    \/ startsWith(src, "../assets/")
    \/ includes(src, "/assets/")

\* optimizeMarkdownImage with the alt text optimized on the unchanged path too
optimizeMarkdownImageAltEverywhere(alt, src) ==
    IF ~isAssetImage(src) THEN "![" \o optimizeAltText(alt) \o "](" \o src \o ")"
    ELSE "<picture>\n  <source srcset=\"" \o webpPath(src)
         \o "\" type=\"image/webp\">\n  <img src=\"" \o src \o "\" alt=\""
         \o optimizeAltText(alt)
         \o "\" loading=\"lazy\" style=\"max-width: 100%; height: auto;\">\n</picture>"

\* optimizeMarkdownImage without its early return for paths outside assets
optimizeMarkdownImageNoPassthrough(alt, src) ==
    "<picture>\n  <source srcset=\"" \o webpPath(src)
    \o "\" type=\"image/webp\">\n  <img src=\"" \o src \o "\" alt=\""
    \o optimizeAltText(alt)
    \o "\" loading=\"lazy\" style=\"max-width: 100%; height: auto;\">\n</picture>"

\* optimizeMarkdownImage(alt, src)
optimizeMarkdownImage(alt, src) ==
    IF ~isAssetImage(src) THEN "![" \o alt \o "](" \o src \o ")"
    ELSE "<picture>\n  <source srcset=\"" \o webpPath(src)
         \o "\" type=\"image/webp\">\n  <img src=\"" \o src \o "\" alt=\""
         \o optimizeAltText(alt)
         \o "\" loading=\"lazy\" style=\"max-width: 100%; height: auto;\">\n</picture>"

\* the first replace of optimizeHtmlImage: the loading attribute
addLoading(imgTag) ==
    IF ~includes(imgTag, "loading=") /\ options.addLazyLoading
    THEN replaceFirst(imgTag, "<img", "<img loading=\"lazy\"")
    ELSE imgTag

\* the second replace of optimizeHtmlImage: the responsive style
addStyle(imgTag) ==
    IF ~includes(imgTag, "style=") /\ ~includes(imgTag, "max-width")
    THEN replaceFirst(imgTag, "<img",
                      "<img style=\"max-width: 100%; height: auto;\"")
    ELSE imgTag

\* optimizeHtmlImage without its early return for an optimized tag
optimizeHtmlImageNoEarlyReturn(imgTag, src) == addStyle(addLoading(imgTag))

\* optimizeHtmlImage(imgTag, src)
optimizeHtmlImage(imgTag, src) ==
    LET hasLazyLoading == includes(imgTag, "loading=")
        hasWebP == includes(imgTag, "<picture>") \/ includes(imgTag, "srcset")
    IN  IF hasLazyLoading /\ hasWebP THEN imgTag
        ELSE addStyle(addLoading(imgTag))

-----------------------------------------------------------------------------
(* optimizeImageReferences: the loop over the scanned references.          *)

\* the branch on image.type in the loop body
rewrite(image) ==
    IF image.type = "markdown" THEN optimizeMarkdownImage(image.alt, image.src)
    ELSE IF image.type = "html" THEN optimizeHtmlImage(image.full, image.src)
    ELSE image.full

\* loopBody with the counter incremented outside the if: every reference counts
loopBodyCountsEvery(loop, image) ==
    LET full == image.full
        optimized == rewrite(image)
        adjustedIndex == image.index + loop.offset
    IN  [optimizedContent |->
             IF optimized # full
             THEN slice(loop.optimizedContent, 0, adjustedIndex)
                  \o optimized
                  \o sliceFrom(loop.optimizedContent, adjustedIndex + Len(full))
             ELSE loop.optimizedContent,
         offset |-> loop.offset + Len(optimized) - Len(full),
         imagesOptimized |-> loop.imagesOptimized + 1]

\* loopBody splicing at the original offset, the running delta not added
loopBodyUnadjusted(loop, image) ==
    LET full == image.full
        optimized == rewrite(image)
        adjustedIndex == image.index
    IN  IF optimized # full
        THEN [optimizedContent |->
                  slice(loop.optimizedContent, 0, adjustedIndex)
                  \o optimized
                  \o sliceFrom(loop.optimizedContent, adjustedIndex + Len(full)),
              offset |-> loop.offset + Len(optimized) - Len(full),
              imagesOptimized |-> loop.imagesOptimized + 1]
        ELSE loop

\* one iteration of the for loop on the loop's variables
loopBody(loop, image) ==
    LET full == image.full
        optimized == rewrite(image)
        adjustedIndex == image.index + loop.offset
    IN  IF optimized # full
        THEN [optimizedContent |->
                  slice(loop.optimizedContent, 0, adjustedIndex)
                  \o optimized
                  \o sliceFrom(loop.optimizedContent, adjustedIndex + Len(full)),
              offset |-> loop.offset + Len(optimized) - Len(full),
              imagesOptimized |-> loop.imagesOptimized + 1]
        ELSE loop

RECURSIVE loopAfter(_, _, _)
\* the loop's variables after its first k iterations over imgs
loopAfter(doc, imgs, k) ==
    IF k = 0
    THEN [optimizedContent |-> doc, offset |-> 0,
          imagesOptimized |-> stats.imagesOptimized]
    ELSE loopBody(loopAfter(doc, imgs, k - 1), imgs[k])

-----------------------------------------------------------------------------
(* The inputs the model draws from.                                        *)

\* the pieces documents are concatenated from
Fragments ==
    { "see ",
      "![a](x.png)",
      "![Photo of b](./assets/b.png)",
      "<img src=\"x.png\">",
      "![c](/assets/c.gif)" }

RECURSIVE DocsOf(_)
\* the documents made of exactly n fragments
DocsOf(n) ==
    IF n = 0 THEN {""}
    ELSE {d \o f : d \in DocsOf(n - 1), f \in Fragments}

\* the documents optimizeImageReferences is called on
Documents == UNION {DocsOf(n) : n \in 0 .. MaxFrags}

\* documents of one reference whose alt text holds a >
EdgeDocuments == {"![a > b](./assets/b.png)"}

\* the documents optimizeImageReferences is called on a second time
PassDocuments == UNION {DocsOf(n) : n \in 0 .. MaxPassFrags} \cup EdgeDocuments

\* alt texts given to the rewriters directly
AltTexts ==
    { "", "a", "A screenshot of the login page", "Screenshot of the login page",
      "diagram.PNG", "photo showing  cat.jpeg", "plan.jpg ", " image of x" }

\* arguments given to optimizeAltText directly
AltArguments == {undefined} \cup {string(alt) : alt \in AltTexts}

\* paths given to the rewriters directly
SourcePaths ==
    { "x.png", "./assets/login.png", "../assets/a.JPG", "img/assets/b.jpeg",
      "/assets/c.gif", "assets/x.png", "img/myassets/x.png",
      "./assets/d.png?v=1" }

\* tags given to optimizeHtmlImage directly
ImgTags ==
    { "<img src=\"x.png\">",
      "<IMG SRC=\"x.png\">",
      "<Img alt=\"a\" src='x.png'>",
      "<img src=\"x.png\" loading=\"lazy\" srcset=\"x.webp\">",
      "<img src=\"x.png\" loading=\"lazy\">",
      "<img src=\"x.png\" srcset=\"x.webp\">",
      "<img src=\"x.png\" style=\"border: 0\">",
      "<img\nclass=\"max-width\" src=\"x.png\" width=\"3\">" }

\* documents given to analyzeImages directly
ScanInputs ==
    { "![]()", "![alt]()", "a![](y.gif)", "![a](x.png)", "![a] (x.png)",
      "![]()![b](c)", "![a]()\n<img src=\"x.png\">", "<img src=\"\">",
      "<img alt=\"src\" src = 'a>b' id=\"i\"> <imgsrc=\"x\">" }

\* the option records optimizers are constructed with for direct calls;
\* addDimensions and backupFiles are read by none of the methods called so
OptionValues ==
    [addLazyLoading : BOOLEAN, useWebP : BOOLEAN, addDimensions : {TRUE},
     optimizeAltText : BOOLEAN, backupFiles : {TRUE}]

\* the value of unit when no rewriter has been called directly
NoUnit == [fn |-> "none"]

-----------------------------------------------------------------------------
(* The state machine.                                                      *)

\* new MarkdownOptimizer(options)
Init ==
    /\ options \in OptionValues
    /\ stats = [filesProcessed |-> 0, imagesOptimized |-> 0, backupsCreated |-> 0]
    /\ pc = "idle"
    /\ content = ""
    /\ images = <<>>
    /\ optimizedContent = ""
    /\ statsAtCall = stats
    /\ unit = NoUnit
    /\ disk = <<>>
    /\ backups = <<>>
    /\ console = <<>>
    /\ files = <<>>
    /\ fileIndex = 0

\* optimizeImageReferences(doc), from the scan to the return statement
OptimizeImageReferences(doc) ==
    /\ pc = "idle"
    /\ stats.imagesOptimized < MaxOptimized
    /\ images' = analyzeImages(doc)
    /\ LET loop == loopAfter(doc, images', Len(images'))
       IN  /\ optimizedContent' = loop.optimizedContent
           /\ stats' = [stats EXCEPT !.imagesOptimized = loop.imagesOptimized]
    /\ content' = doc
    /\ statsAtCall' = stats
    /\ pc' = "returned"
    /\ UNCHANGED <<options, unit>>
    /\ UNCHANGED runVars

\* optimizeImageReferences called again, on the string its last call returned;
\* unit keeps the argument and the result of that last call
OptimizeImageReferencesAgain ==
    /\ pc = "returned"
    /\ unit = NoUnit
    /\ images' = analyzeImages(optimizedContent)
    /\ LET loop == loopAfter(optimizedContent, images', Len(images'))
       IN  /\ optimizedContent' = loop.optimizedContent
           /\ stats' = [stats EXCEPT !.imagesOptimized = loop.imagesOptimized]
    /\ content' = optimizedContent
    /\ statsAtCall' = stats
    /\ unit' = [fn |-> "optimizeImageReferences", content |-> content,
                result |-> optimizedContent]
    /\ UNCHANGED <<options, pc>>
    /\ UNCHANGED runVars

\* a direct call of optimizeMarkdownImage(alt, src)
CallOptimizeMarkdownImage(alt, src) ==
    /\ pc = "idle"
    /\ unit' = [fn |-> "optimizeMarkdownImage", alt |-> alt, src |-> src,
                result |-> optimizeMarkdownImage(alt, src)]
    /\ pc' = "returned"
    /\ UNCHANGED <<options, stats, content, images, optimizedContent,
                   statsAtCall>>
    /\ UNCHANGED runVars

\* a call of optimizeHtmlImage(full, src) on the reference scanned from imgTag
CallOptimizeHtmlImage(imgTag) ==
    /\ pc = "idle"
    /\ \E image \in {analyzeImages(imgTag)[1]} :
           unit' = [fn |-> "optimizeHtmlImage", imgTag |-> image.full,
                    src |-> image.src,
                    result |-> optimizeHtmlImage(image.full, image.src)]
    /\ pc' = "returned"
    /\ UNCHANGED <<options, stats, content, images, optimizedContent,
                   statsAtCall>>
    /\ UNCHANGED runVars

\* a direct call of optimizeAltText(alt)
CallOptimizeAltText(alt) ==
    /\ pc = "idle"
    /\ unit' = [fn |-> "optimizeAltText", alt |-> alt,
                result |-> optimizeAltTextOf(alt)]
    /\ pc' = "returned"
    /\ UNCHANGED <<options, stats, content, images, optimizedContent,
                   statsAtCall>>
    /\ UNCHANGED runVars

\* a direct call of analyzeImages(doc)
CallAnalyzeImages(doc) ==
    /\ pc = "idle"
    /\ unit' = [fn |-> "analyzeImages", content |-> doc,
                result |-> analyzeImages(doc)]
    /\ pc' = "returned"
    /\ UNCHANGED <<options, stats, content, images, optimizedContent,
                   statsAtCall>>
    /\ UNCHANGED runVars

\* the caller takes the returned value; the call's locals are gone
Return ==
    /\ pc = "returned"
    /\ pc' = "idle"
    /\ content' = ""
    /\ images' = <<>>
    /\ optimizedContent' = ""
    /\ statsAtCall' = stats
    /\ unit' = NoUnit
    /\ UNCHANGED <<options, stats>>
    /\ UNCHANGED runVars

Next ==
    \/ \E doc \in Documents : OptimizeImageReferences(doc)
    \/ \E alt \in AltTexts, src \in SourcePaths : CallOptimizeMarkdownImage(alt, src)
    \/ \E imgTag \in ImgTags : CallOptimizeHtmlImage(imgTag)
    \/ \E alt \in AltArguments : CallOptimizeAltText(alt)
    \/ \E doc \in ScanInputs : CallAnalyzeImages(doc)
    \/ Return

Spec == Init /\ [][Next]_vars

-----------------------------------------------------------------------------
(* A second pass: optimizeImageReferences on what it returned.             *)

\* an optimizer constructed with useWebP left enabled
InitAgain == Init /\ options.useWebP

NextAgain ==
    \/ \E doc \in PassDocuments : OptimizeImageReferences(doc)
    \/ OptimizeImageReferencesAgain
    \/ \E alt \in AltTexts, src \in SourcePaths : CallOptimizeMarkdownImage(alt, src)
    \/ \E imgTag \in ImgTags : CallOptimizeHtmlImage(imgTag)
    \/ Return

SpecAgain == InitAgain /\ [][NextAgain]_vars

-----------------------------------------------------------------------------
(* The command line interface: run over the files, processFile on each.    *)

\* the flags the command line interface recognizes
Flags == {"--no-lazy", "--no-webp", "--no-backup"}

\* the options of the optimizer the command line interface constructs
cliOptions(args) ==
    [addLazyLoading |-> "--no-lazy" \notin args,
     useWebP |-> "--no-webp" \notin args,
     addDimensions |-> TRUE,
     optimizeAltText |-> TRUE,
     backupFiles |-> "--no-backup" \notin args]

\* the texts a markdown file holds when run starts
FileContents == DocsOf(1)

\* the directories run may find: the texts of up to MaxFiles markdown files,
\* in the order findMarkdownFiles lists them
Disks == UNION {[1 .. n -> FileContents] : n \in 0 .. MaxFiles}

\* node optimize-markdown.js args: the optimizer is constructed, run not begun
InitRun ==
    /\ \E args \in SUBSET Flags : options = cliOptions(args)
    /\ stats = [filesProcessed |-> 0, imagesOptimized |-> 0, backupsCreated |-> 0]
    /\ pc = "run"
    /\ content = ""
    /\ images = <<>>
    /\ optimizedContent = ""
    /\ statsAtCall = stats
    /\ unit = NoUnit
    /\ disk \in Disks
    /\ backups = <<>>
    /\ console = <<>>
    /\ files = <<>>
    /\ fileIndex = 0

\* the argument of the processFile call the for loop of run is in
filePath == files[fileIndex]

\* a line of the console about the file being processed
logged(msg) == [msg |-> msg, file |-> filePath]

\* processFile returns to the for loop of run, which takes the next file or,
\* after the last, goes on to the summary; the call's locals are gone
ProcessFileReturns ==
    /\ fileIndex' = fileIndex + 1
    /\ pc' = IF fileIndex < Len(files) THEN "processFile" ELSE "summary"
    /\ content' = ""
    /\ images' = <<>>
    /\ optimizedContent' = ""

\* catchError with the error thrown on to run, which has no handler
catchErrorRethrows(log) ==
    /\ console' = Append(log, logged("Error"))
    /\ pc' = "threw"
    /\ content' = ""
    /\ images' = <<>>
    /\ optimizedContent' = ""
    /\ UNCHANGED fileIndex

\* the catch block of processFile, entered after log was printed: the error
\* is printed and processFile returns
catchError(log) ==
    /\ console' = Append(log, logged("Error"))
    /\ ProcessFileReturns

\* run, up to the first iteration of its for loop
Run ==
    /\ pc = "run"
    /\ files' = [i \in 1 .. Len(disk) |-> i]
    /\ IF Len(disk) = 0
       THEN pc' = "done" /\ UNCHANGED fileIndex
       ELSE pc' = "processFile" /\ fileIndex' = 1
    /\ UNCHANGED <<options, stats, content, images, optimizedContent,
                   statsAtCall, unit, disk, backups, console>>

\* ProcessFileRead without the early return for a file with no image
ProcessFileReadNoEarlyReturn ==
    /\ pc = "processFile"
    /\ \/ /\ catchError(Append(console, logged("Processing")))
          /\ UNCHANGED stats
       \/ /\ content' = disk[filePath]
          /\ console' = Append(console, logged("Processing"))
          /\ pc' = "createBackup"
          /\ UNCHANGED <<stats, images, optimizedContent, fileIndex>>
    /\ UNCHANGED <<options, statsAtCall, unit, disk, backups, files>>

\* processFile(filePath), from its first line to the call of createBackup
ProcessFileRead ==
    /\ pc = "processFile"
    /\ \/ /\ catchError(Append(console, logged("Processing")))
          /\ UNCHANGED stats
       \/ /\ analyzeImages(disk[filePath]) = <<>>
          /\ console' = console \o <<logged("Processing"), logged("No images found")>>
          /\ ProcessFileReturns
          /\ UNCHANGED stats
       \/ /\ analyzeImages(disk[filePath]) # <<>>
          /\ content' = disk[filePath]
          /\ console' = Append(console, logged("Processing"))
          /\ pc' = "createBackup"
          /\ UNCHANGED <<stats, images, optimizedContent, fileIndex>>
    /\ UNCHANGED <<options, statsAtCall, unit, disk, backups, files>>

\* CreateBackup with a failed copy swallowed: createBackup returns normally
CreateBackupFailureSwallowed ==
    /\ pc = "createBackup"
    /\ \/ /\ pc' = "optimizeImageReferences"
          /\ UNCHANGED <<stats, backups>>
       \/ /\ options.backupFiles
          /\ backups' = Append(backups, [file |-> filePath, content |-> disk[filePath]])
          /\ stats' = [stats EXCEPT !.backupsCreated = @ + 1]
          /\ pc' = "optimizeImageReferences"
    /\ UNCHANGED <<options, content, images, optimizedContent, statsAtCall,
                   unit, disk, console, files, fileIndex>>

\* createBackup(filePath) as processFile calls it: it returns at once when
\* backupFiles is off, else it copies the file, unless mkdirSync or
\* copyFileSync throws, which takes processFile to its catch block
CreateBackup ==
    /\ pc = "createBackup"
    /\ \/ /\ ~options.backupFiles
          /\ pc' = "optimizeImageReferences"
          /\ UNCHANGED <<stats, backups, console, content, images,
                         optimizedContent, fileIndex>>
       \/ /\ options.backupFiles
          /\ catchError(console)
          /\ UNCHANGED <<stats, backups>>
       \/ /\ options.backupFiles
          /\ backups' = Append(backups, [file |-> filePath, content |-> disk[filePath]])
          /\ stats' = [stats EXCEPT !.backupsCreated = @ + 1]
          /\ pc' = "optimizeImageReferences"
          /\ UNCHANGED <<console, content, images, optimizedContent, fileIndex>>
    /\ UNCHANGED <<options, statsAtCall, unit, disk, files>>

\* the call of optimizeImageReferences(content) in processFile
ProcessFileOptimize ==
    /\ pc = "optimizeImageReferences"
    /\ images' = analyzeImages(content)
    /\ LET loop == loopAfter(content, images', Len(images'))
       IN  /\ optimizedContent' = loop.optimizedContent
           /\ stats' = [stats EXCEPT !.imagesOptimized = loop.imagesOptimized]
    /\ pc' = "writeFileSync"
    /\ UNCHANGED <<options, content, statsAtCall, unit>>
    /\ UNCHANGED runVars

\* processFile from the comparison of the optimized content to its end: the
\* file is written when the content changed, unless writeFileSync throws
ProcessFileWrite ==
    /\ pc = "writeFileSync"
    /\ \/ /\ optimizedContent # content
          /\ catchError(console)
          /\ UNCHANGED <<stats, disk>>
       \/ /\ optimizedContent # content
          /\ disk' = [disk EXCEPT ![filePath] = optimizedContent]
          /\ console' = Append(console, logged("Optimized"))
          /\ stats' = [stats EXCEPT !.filesProcessed = @ + 1]
          /\ ProcessFileReturns
       \/ /\ optimizedContent = content
          /\ console' = Append(console, logged("Already optimized"))
          /\ stats' = [stats EXCEPT !.filesProcessed = @ + 1]
          /\ ProcessFileReturns
          /\ UNCHANGED disk
    /\ UNCHANGED <<options, statsAtCall, unit, backups, files>>

\* run after its for loop: the summary is printed and the recommendations
\* are written, unless that writeFileSync throws
RunSummary ==
    /\ pc = "summary"
    /\ pc' \in {"done", "threw"}
    /\ UNCHANGED <<options, stats, content, images, optimizedContent,
                   statsAtCall, unit>>
    /\ UNCHANGED runVars

NextRun ==
    \/ Run
    \/ ProcessFileRead
    \/ CreateBackup
    \/ ProcessFileOptimize
    \/ ProcessFileWrite
    \/ RunSummary

SpecRun == InitRun /\ [][NextRun]_vars

-----------------------------------------------------------------------------
(* Vocabulary of the properties.                                           *)

\* an optimizeImageReferences call has just returned
Returned == pc = "returned" /\ unit = NoUnit

\* the options a constructor call without arguments leaves
DefaultOptions ==
    /\ options.addLazyLoading /\ options.useWebP /\ options.addDimensions
    /\ options.optimizeAltText /\ options.backupFiles

\* the positions in imgs of the references whose rewrite differs from full
changed(imgs) == {i \in 1 .. Len(imgs) : rewrite(imgs[i]) # imgs[i].full}

\* no two references of imgs share a character of the document
nonOverlapping(imgs) ==
    \A i, j \in 1 .. Len(imgs) :
        i # j => \/ imgs[i].index + Len(imgs[i].full) <= imgs[j].index
                 \/ imgs[j].index + Len(imgs[j].full) <= imgs[i].index

RECURSIVE replaceAll(_, _, _)
\* doc with the span of every reference of todo replaced by its rewrite, each
\* at its original offset: the rightmost span first, so that no replacement
\* moves a span still to be replaced
replaceAll(doc, imgs, todo) ==
    IF todo = {} THEN doc
    ELSE LET last == CHOOSE i \in todo : \A j \in todo : imgs[j].index <= imgs[i].index
         IN  replaceAll(slice(doc, 0, imgs[last].index)
                            \o rewrite(imgs[last])
                            \o sliceFrom(doc, imgs[last].index + Len(imgs[last].full)),
                        imgs, todo \ {last})

\* the reference is a markdown one whose path holds the text assets/
underAssets(image) == image.type = "markdown" /\ includes(image.src, "assets/")

\* the reference is a markdown one whose path does not hold the text assets/
plainMarkdown(image) == image.type = "markdown" /\ ~includes(image.src, "assets/")

\* the text the <picture> block of optimizeMarkdownImage begins with
PictureOpen == "<picture>\n  <source srcset=\""

-----------------------------------------------------------------------------
(* C1 .. C5                                                                *)

\* C1: for every document whose references do not overlap, in whatever order
\* markdown and HTML references stand, optimizeImageReferences returns the
\* document with each changed reference's span replaced by its rewrite and
\* every other character kept
C1_ReassemblyAtOriginalOffsets ==
    (Returned /\ nonOverlapping(images))
        => optimizedContent = replaceAll(content, images, changed(images))

\* C2: a markdown reference whose path does not contain assets/ is returned
\* by optimizeMarkdownImage as ![alt](path) exactly, under every option
\* value, and so is never among the references spliced and counted
C2_NonAssetPassthrough ==
    /\ (unit.fn = "optimizeMarkdownImage" /\ ~includes(unit.src, "assets/"))
           => unit.result = "![" \o unit.alt \o "](" \o unit.src \o ")"
    /\ Returned => \A i \in 1 .. Len(images) :
                       plainMarkdown(images[i]) => i \notin changed(images)

\* C2 witness: a path outside assets was rewritten with an alt text that the
\* alt-text optimization would change, and with useWebP switched off
C2_Witness ==
    /\ unit.fn = "optimizeMarkdownImage"
    /\ unit.src = "x.png" /\ unit.alt = "diagram.PNG"
    /\ unit.result = "![diagram.PNG](x.png)"
    /\ options.optimizeAltText /\ ~options.useWebP

\* C3 as the claim states it: the rewrite of
\* ![A screenshot of the login page](./assets/login.png) carries the WebP
\* srcset, the type, the original src, alt="Login page" and loading="lazy"
C3_LeadingPhraseStripped ==
    (/\ unit.fn = "optimizeMarkdownImage" /\ DefaultOptions
     /\ unit.alt = "A screenshot of the login page"
     /\ unit.src = "./assets/login.png")
        => /\ includes(unit.result, "srcset=\"./assets/login.webp\"")
           /\ includes(unit.result, "type=\"image/webp\"")
           /\ includes(unit.result, "src=\"./assets/login.png\"")
           /\ includes(unit.result, "alt=\"Login page\"")
           /\ includes(unit.result, "loading=\"lazy\"")

\* C3 amended: the phrase is stripped only where the alt text begins with it.
\* The rewrite of ![A screenshot of the login page](./assets/login.png) keeps
\* the alt text whole beside the WebP srcset, the type, the original src and
\* loading="lazy"; with the alt text Screenshot of the login page and
\* optimizeAltText enabled the alt becomes The login page
C3_PhraseStrippedAtStartOnly ==
    (unit.fn = "optimizeMarkdownImage" /\ unit.src = "./assets/login.png")
        => /\ unit.alt \in {"A screenshot of the login page",
                            "Screenshot of the login page"}
                  => /\ includes(unit.result, "srcset=\"./assets/login.webp\"")
                     /\ includes(unit.result, "type=\"image/webp\"")
                     /\ includes(unit.result, "src=\"./assets/login.png\"")
                     /\ includes(unit.result, "loading=\"lazy\"")
           /\ unit.alt = "A screenshot of the login page"
                  => includes(unit.result, "alt=\"A screenshot of the login page\"")
           /\ (unit.alt = "Screenshot of the login page" /\ options.optimizeAltText)
                  => includes(unit.result, "alt=\"The login page\"")

\* C3 witness: the claim's reference was rewritten under the default options
C3_Witness ==
    /\ unit.fn = "optimizeMarkdownImage" /\ DefaultOptions
    /\ unit.alt = "A screenshot of the login page"
    /\ unit.src = "./assets/login.png"
    /\ startsWith(unit.result, PictureOpen)

C5_NothingToRewriteIsIdentity ==
    (Returned /\ \A i \in 1 .. Len(images) : plainMarkdown(images[i]))
        => /\ optimizedContent = content
           /\ stats.imagesOptimized = statsAtCall.imagesOptimized

\* C5 witness: a document of text and two markdown references outside assets/
\* came back unchanged
C5_Witness ==
    /\ Returned
    /\ content = "![a](x.png)see ![a](x.png)"
    /\ Len(images) = 2
    /\ \A i \in 1 .. 2 : plainMarkdown(images[i])
    /\ optimizedContent = content

-----------------------------------------------------------------------------
(* C6 .. C10                                                               *)

\* the two attributes optimizeHtmlImage inserts, as it writes them
LazyAttribute == " loading=\"lazy\""

StyleAttribute == " style=\"max-width: 100%; height: auto;\""

\* the elements of a sequence
Range(seq) == {seq[i] : i \in 1 .. Len(seq)}

\* the tag's opening token: <img in the letter case the tag is written in
openingToken(imgTag) == slice(imgTag, 0, 4)

\* C6 as the claim states it: a markdown reference is rewritten to the
\* <picture> block if and only if its path contains assets/ anywhere, as
\* assets/x.png and img/myassets/x.png do
C6_AssetIffContainsAssets ==
    unit.fn = "optimizeMarkdownImage"
        => (startsWith(unit.result, PictureOpen) <=> includes(unit.src, "assets/"))

\* C6 amended: a markdown reference is rewritten to the <picture> block if and
\* only if its path contains /assets/ (which ./assets/ and ../assets/ do);
\* every other path, assets/x.png and img/myassets/x.png among them, comes
\* back as ![alt](path)
C6_AssetIffContainsSlashAssets ==
    unit.fn = "optimizeMarkdownImage"
        => /\ startsWith(unit.result, PictureOpen) <=> includes(unit.src, "/assets/")
           /\ ~includes(unit.src, "/assets/")
                  => unit.result = "![" \o unit.alt \o "](" \o unit.src \o ")"

\* C6 witness: a path that holds assets/ but not /assets/ came back unchanged
C6_Witness ==
    /\ unit.fn = "optimizeMarkdownImage"
    /\ unit.src = "img/myassets/x.png"
    /\ unit.alt = "a"
    /\ unit.result = "![a](img/myassets/x.png)"

\* C7: a tag that holds loading= and also srcset or <picture> is returned by
\* optimizeHtmlImage unchanged, style attribute or not
C7_OptimizedTagUnchanged ==
    (/\ unit.fn = "optimizeHtmlImage"
     /\ includes(unit.imgTag, "loading=")
     /\ includes(unit.imgTag, "srcset") \/ includes(unit.imgTag, "<picture>"))
        => unit.result = unit.imgTag

\* C7 witness: the tag with loading and srcset and no style was rewritten
C7_Witness ==
    /\ unit.fn = "optimizeHtmlImage"
    /\ unit.imgTag = "<img src=\"x.png\" loading=\"lazy\" srcset=\"x.webp\">"
    /\ ~includes(unit.imgTag, "style=")
    /\ unit.result = unit.imgTag

\* C8: under the default options a tag with no loading attribute, no style
\* attribute and no max-width gains loading="lazy" and the responsive style
\* after its opening token, and is otherwise returned as it was
C8_BothAttributesInserted ==
    (/\ unit.fn = "optimizeHtmlImage" /\ DefaultOptions
     /\ ~includes(toLowerCase(unit.imgTag), "loading=")
     /\ ~includes(toLowerCase(unit.imgTag), "style=")
     /\ ~includes(toLowerCase(unit.imgTag), "max-width"))
        => unit.result \in
               { openingToken(unit.imgTag) \o StyleAttribute \o LazyAttribute
                     \o sliceFrom(unit.imgTag, 4),
                 openingToken(unit.imgTag) \o LazyAttribute \o StyleAttribute
                     \o sliceFrom(unit.imgTag, 4) }

\* C9: with addLazyLoading enabled, every HTML reference the scanner detects
\* that has no loading attribute, in whatever letter case its tag is
\* written, is rewritten with loading="lazy" right after its opening token
\* (after the style attribute when that is inserted as well)
C9_LazyLoadingInsertedAnyCase ==
    (/\ unit.fn = "optimizeHtmlImage" /\ options.addLazyLoading
     /\ ~includes(toLowerCase(unit.imgTag), "loading="))
        => \/ startsWith(unit.result, openingToken(unit.imgTag) \o LazyAttribute)
           \/ startsWith(unit.result,
                         openingToken(unit.imgTag) \o StyleAttribute \o LazyAttribute)

\* C10 as the claim states it: ![]() and ![alt]() are detected, with the
\* empty path recorded beside the alt text and the offset
C10_EmptyPathDetected ==
    (unit.fn = "analyzeImages" /\ unit.content \in {"![]()", "![alt]()"})
        => \E i \in 1 .. Len(unit.result) :
               /\ unit.result[i].type = "markdown"
               /\ unit.result[i].src = ""
               /\ unit.result[i].index = 0

\* C10 amended: a markdown construct with an empty alt text and a path of at
\* least one character is detected, the empty alt text recorded beside the
\* path and the offset; a construct with an empty path, as ![]() and
\* ![alt](), is not detected, so no recorded reference has an empty path
C10_EmptyAltDetectedEmptyPathNot ==
    /\ unit.fn = "analyzeImages"
           => /\ \A i \in 1 .. Len(unit.result) :
                     unit.result[i].type = "markdown" => unit.result[i].src # ""
              /\ unit.content \in {"![]()", "![alt]()"} => unit.result = <<>>
              /\ unit.content = "a![](y.gif)"
                     => unit.result = <<[type |-> "markdown", full |-> "![](y.gif)",
                                         alt |-> "", src |-> "y.gif", index |-> 1]>>
              /\ unit.content = "![]()![b](c)"
                     => unit.result = <<[type |-> "markdown", full |-> "![b](c)",
                                         alt |-> "b", src |-> "c", index |-> 5]>>
    /\ Returned => \A i \in 1 .. Len(images) :
                       images[i].type = "markdown" => images[i].src # ""

\* C10 witness: the scan of a![](y.gif) recorded the empty alt text at offset 1
C10_Witness ==
    /\ unit.fn = "analyzeImages"
    /\ unit.content = "a![](y.gif)"
    /\ Len(unit.result) = 1
    /\ unit.result[1].alt = "" /\ unit.result[1].index = 1

-----------------------------------------------------------------------------
(* C11 .. C15                                                              *)

\* the endings the alt-text optimization strips, in lower case
AltExtensions == {".png", ".jpg", ".jpeg", ".gif"}

\* the alt text ends with ext in some letter case
endsWithExtension(alt, ext) ==
    /\ Len(alt) >= Len(ext)
    /\ toLowerCase(sliceFrom(alt, Len(alt) - Len(ext))) = ext

\* C11: with the optimizeAltText option enabled, an alt text that ends with
\* .png, .jpg, .jpeg or .gif in any letter case loses that ending, and what
\* is left begins with a capital: diagram.PNG optimizes to Diagram
C11_ExtensionStrippedThenCapitalized ==
    (unit.fn = "optimizeAltText" /\ unit.alt # undefined /\ options.optimizeAltText)
        => /\ unit.alt.value = "diagram.PNG" => unit.result = string("Diagram")
           /\ \A ext \in AltExtensions :
                  endsWithExtension(unit.alt.value, ext)
                      => /\ Len(unit.result.value) <= Len(unit.alt.value) - Len(ext)
                         /\ ~includes(LowerLetters, charAt(unit.result.value, 0))

\* C11 witness: diagram.PNG was optimized to Diagram
C11_Witness ==
    /\ unit.fn = "optimizeAltText" /\ options.optimizeAltText
    /\ unit.alt = string("diagram.PNG")
    /\ unit.result = string("Diagram")

\* C12: with the useWebP option disabled the markdown asset rewrite emits no
\* WebP sibling: its result holds no source of type image/webp and no .webp
\* path
C12_UseWebPGatesWebPSource ==
    (unit.fn = "optimizeMarkdownImage" /\ ~options.useWebP)
        => /\ ~includes(unit.result, "image/webp")
           /\ ~includes(unit.result, ".webp")

\* the files the console has a line msg about, in the order of the lines
filesLogged(msg) ==
    LET lines == SelectSeq(console, LAMBDA line : line.msg = msg)
    IN  [i \in 1 .. Len(lines) |-> lines[i].file]

\* the for loop of run is over, or was never entered
LoopOver == pc \in {"summary", "done", "threw"}

\* C13: with backupFiles enabled, no step of a run changes the text of a file
\* unless createBackup has copied that file, with the text it had, earlier in
\* the processFile call; a file whose backup failed stays as it was
C13_BackupPrecedesWrite ==
    [][\A f \in DOMAIN disk :
           (options.backupFiles /\ disk'[f] # disk[f])
               => /\ pc = "writeFileSync" /\ f = filePath
                  /\ \E k \in 1 .. Len(backups) :
                         /\ backups[k].file = f
                         /\ backups[k].content = disk[f]]_vars

\* C13 witness: with backupFiles enabled a file was overwritten, and the
\* backup holds the text it had before
C13_Witness ==
    /\ options.backupFiles
    /\ \E k \in 1 .. Len(backups) :
           /\ backups[k].content # disk[backups[k].file]
           /\ backups[k].file \in Range(filesLogged("Optimized"))

\* C14: an I/O failure in processFile is logged for that file and run goes
\* on: when the for loop is over, processFile has been called once on every
\* file of the list, in order; filesProcessed counts the calls that reached
\* their end, and no file with an error logged is among them
C14_FailureIsPerDocument ==
    /\ LoopOver => filesLogged("Processing") = files
    /\ stats.filesProcessed
           = Len(filesLogged("Optimized")) + Len(filesLogged("Already optimized"))
    /\ \A f \in Range(filesLogged("Error")) :
           f \notin Range(filesLogged("Optimized"))
                        \cup Range(filesLogged("Already optimized"))

\* C14 witness: the first of two files failed, the second was processed to
\* its end and counted, and run finished
C14_Witness ==
    /\ pc = "done"
    /\ Len(files) = 2
    /\ filesLogged("Error") = <<1>>
    /\ filesLogged("Optimized") = <<2>>
    /\ stats.filesProcessed = 1

\* the references of imgs stand in non-decreasing order of original offset
inDocumentOrder(imgs) ==
    \A i, j \in 1 .. Len(imgs) : i < j => imgs[i].index <= imgs[j].index

RECURSIVE sumOfDeltas(_, _)
\* the sum of len(result) - len(fullText) over the first k references of imgs
sumOfDeltas(imgs, k) ==
    IF k = 0 THEN 0
    ELSE sumOfDeltas(imgs, k - 1) + Len(rewrite(imgs[k])) - Len(imgs[k].full)

\* C15: when the scanned references do not overlap and stand in
\* non-decreasing order of original offset, optimizeImageReferences returns
\* the document with every changed span replaced at its original offset, and
\* the running delta after k references is the sum of
\* len(result) - len(fullText) over those k references
C15_InOrderSpliceIsSimultaneousReplace ==
    (Returned /\ nonOverlapping(images) /\ inDocumentOrder(images))
        => /\ optimizedContent = replaceAll(content, images, changed(images))
           /\ \A k \in 0 .. Len(images) :
                  loopAfter(content, images, k).offset = sumOfDeltas(images, k)

\* C15 witness: a markdown reference and an HTML reference after it were both
\* rewritten, the second spliced at its offset plus the delta of the first
C15_Witness ==
    /\ Returned
    /\ content = "![Photo of b](./assets/b.png)<img src=\"x.png\">"
    /\ inDocumentOrder(images) /\ nonOverlapping(images)
    /\ changed(images) = {1, 2}
    /\ loopAfter(content, images, 1).offset > 0
    /\ optimizedContent = rewrite(images[1]) \o rewrite(images[2])

-----------------------------------------------------------------------------
(* C16 .. C20                                                              *)

\* list is markdown references in strictly increasing order of offset, then
\* HTML references in strictly increasing order of offset
markdownThenHtml(list) ==
    \E m \in 0 .. Len(list) :
        /\ \A i \in 1 .. Len(list) :
               list[i].type = IF i <= m THEN "markdown" ELSE "html"
        /\ \A i, j \in 1 .. m : i < j => list[i].index < list[j].index
        /\ \A i, j \in (m + 1) .. Len(list) :
               i < j => list[i].index < list[j].index

\* C16: the list analyzeImages returns is all markdown references in
\* strictly increasing order of offset, then all HTML references in strictly
\* increasing order of offset, wherever they stand in the document
C16_MarkdownPassThenHtmlPass ==
    /\ unit.fn = "analyzeImages" => markdownThenHtml(unit.result)
    /\ Returned => markdownThenHtml(images)

\* C16 witness: in a document whose HTML references stand before and between
\* its markdown references, the markdown references were listed first
C16_Witness ==
    /\ Returned
    /\ content = "<img src=\"x.png\">![a](x.png)<img src=\"x.png\">"
    /\ Len(images) = 3
    /\ images[1].type = "markdown" /\ images[1].index = 17
    /\ images[2].type = "html" /\ images[2].index = 0
    /\ images[3].type = "html" /\ images[3].index = 28

\* every reference of list has as full the text doc holds from its index on,
\* and a markdown reference's full is ![alt](src)
spansOf(doc, list) ==
    \A i \in 1 .. Len(list) :
        /\ list[i].index >= 0
        /\ list[i].index + Len(list[i].full) <= Len(doc)
        /\ list[i].full
               = SubSeq(doc, list[i].index + 1, list[i].index + Len(list[i].full))
        /\ list[i].type = "markdown"
               => list[i].full = "![" \o list[i].alt \o "](" \o list[i].src \o ")"

\* C17: every reference analyzeImages returns has as full the substring of
\* the scanned document that starts at index and is len(full) long, and for a
\* markdown reference full is ![ alt ]( src )
C17_FullIsTheSpanAtIndex ==
    /\ unit.fn = "analyzeImages" => spansOf(unit.content, unit.result)
    /\ Returned => spansOf(content, images)

\* C17 witness: two markdown references after text were scanned, each at the
\* offset where its text stands
C17_Witness ==
    /\ Returned
    /\ content = "see ![a](x.png)![Photo of b](./assets/b.png)"
    /\ Len(images) = 2
    /\ images[1].index = 4 /\ images[1].full = "![a](x.png)"
    /\ images[2].index = 15 /\ images[2].full = "![Photo of b](./assets/b.png)"
    /\ images[2].alt = "Photo of b" /\ images[2].src = "./assets/b.png"

\* the endings of a path that the rewrite replaces by .webp, in lower case
WebPExtensions == {".png", ".jpg", ".jpeg"}

\* the path with its ending .png, .jpg or .jpeg, in any letter case, replaced
\* by .webp; the path itself when it has no such ending
siblingPath(src) ==
    LET ends == {ext \in WebPExtensions : endsWithExtension(src, ext)}
    IN  IF ends = {} THEN src
        ELSE SubSeq(src, 1, Len(src) - Len(CHOOSE ext \in ends : TRUE)) \o ".webp"

\* the source element of the block, for the srcset path
sourceElement(path) == "<source srcset=\"" \o path \o "\" type=\"image/webp\">"

\* C18: the block emitted for an asset markdown reference has the original
\* path as the src of its img and, as srcset, the path with a trailing .png,
\* .jpg or .jpeg in any letter case replaced by .webp; a path with no such
\* ending, as one ending in .gif or in a query string, is its own srcset,
\* and its reference is rewritten and counted all the same
C18_FallbackKeptSiblingComputed ==
    /\ (unit.fn = "optimizeMarkdownImage" /\ includes(unit.src, "/assets/"))
           => /\ includes(unit.result, "<img src=\"" \o unit.src \o "\" alt=")
              /\ includes(unit.result, sourceElement(siblingPath(unit.src)))
              /\ unit.src = "../assets/a.JPG"
                     => includes(unit.result, sourceElement("../assets/a.webp"))
              /\ unit.src \in {"/assets/c.gif", "./assets/d.png?v=1"}
                     => includes(unit.result, sourceElement(unit.src))
              /\ unit.result # "![" \o unit.alt \o "](" \o unit.src \o ")"
    /\ Returned
           => \A i \in 1 .. Len(images) :
                  (images[i].type = "markdown" /\ includes(images[i].src, "/assets/"))
                      => /\ i \in changed(images)
                         /\ includes(rewrite(images[i]),
                                     sourceElement(siblingPath(images[i].src)))
                         /\ stats.imagesOptimized > statsAtCall.imagesOptimized

\* C18 witness: a reference to a .gif under /assets/ was rewritten in a
\* document, with the .gif path as srcset and as src, and counted
C18_Witness ==
    /\ Returned
    /\ content = "see ![c](/assets/c.gif)"
    /\ includes(optimizedContent, sourceElement("/assets/c.gif"))
    /\ includes(optimizedContent, "<img src=\"/assets/c.gif\" alt=\"")
    /\ stats.imagesOptimized = statsAtCall.imagesOptimized + 1

\* the phrases the alt-text optimization strips, in lower case
AltPrefixes ==
    {"image of ", "image showing ", "picture of ", "picture showing ",
     "photo of ", "photo showing ", "screenshot of ", "screenshot showing "}

\* step 1 of the reference pipeline: a leading phrase, in any letter case, off
withoutPrefix(alt) ==
    LET heads == {p \in AltPrefixes :
                     Len(p) <= Len(alt) /\ toLowerCase(SubSeq(alt, 1, Len(p))) = p}
    IN  IF heads = {} THEN alt
        ELSE SubSeq(alt, Len(CHOOSE p \in heads : TRUE) + 1, Len(alt))

\* step 2: a trailing .png, .jpg, .jpeg or .gif, in any letter case, off
withoutExtension(alt) ==
    LET ends == {ext \in AltExtensions : endsWithExtension(alt, ext)}
    IN  IF ends = {} THEN alt
        ELSE SubSeq(alt, 1, Len(alt) - Len(CHOOSE ext \in ends : TRUE))

\* step 4: the first character in upper case, when there is one
capitalized(alt) ==
    IF alt = "" THEN alt
    ELSE toUpperChar(SubSeq(alt, 1, 1)) \o SubSeq(alt, 2, Len(alt))

\* the reference pipeline: prefix off, ending off, trimmed, capitalized
referencePipeline(alt) == capitalized(trim(withoutExtension(withoutPrefix(alt))))

\* C19: optimizeAltText returns its argument as it is when the argument is
\* absent or empty or the optimizeAltText option is disabled; otherwise it
\* returns what the reference pipeline gives, its steps in this order: the
\* leading phrase stripped, the trailing extension stripped, the whitespace
\* trimmed, the first character capitalized
C19_AltTextIsReferencePipeline ==
    unit.fn = "optimizeAltText"
        => IF unit.alt = undefined \/ unit.alt = string("")
              \/ ~options.optimizeAltText
           THEN unit.result = unit.alt
           ELSE /\ unit.result = string(referencePipeline(unit.alt.value))
                /\ unit.alt.value = "plan.jpg " => unit.result.value = "Plan.jpg"
                /\ unit.alt.value = " image of x" => unit.result.value = "Image of x"
                /\ unit.alt.value = "photo showing  cat.jpeg"
                       => unit.result.value = "Cat"

\* C19 witness: an alt text with a phrase, two spaces and an ending went
\* through all four steps
C19_Witness ==
    /\ unit.fn = "optimizeAltText" /\ options.optimizeAltText
    /\ unit.alt = string("photo showing  cat.jpeg")
    /\ unit.result = string("Cat")

\* the tag is one optimizeHtmlImage takes as optimized and returns at once
fullyOptimized(imgTag) ==
    /\ includes(imgTag, "loading=")
    /\ includes(imgTag, "<picture>") \/ includes(imgTag, "srcset")

\* C20: the two insertions of optimizeHtmlImage are independent. On a tag not
\* already optimized: with addLazyLoading disabled no loading attribute is
\* inserted, and the responsive style is inserted after the opening token
\* whenever the tag has neither style= nor max-width; with addLazyLoading
\* enabled a tag that has a style attribute and no loading attribute gains the
\* loading attribute only
C20_InsertionsIndependent ==
    (unit.fn = "optimizeHtmlImage" /\ ~fullyOptimized(unit.imgTag))
        => /\ (~options.addLazyLoading /\ ~includes(unit.imgTag, "loading="))
                  => ~includes(unit.result, "loading=")
           /\ (/\ ~options.addLazyLoading
               /\ ~includes(unit.imgTag, "style=")
               /\ ~includes(unit.imgTag, "max-width"))
                  => unit.result = openingToken(unit.imgTag) \o StyleAttribute
                                       \o sliceFrom(unit.imgTag, 4)
           /\ (/\ options.addLazyLoading
               /\ includes(unit.imgTag, "style=")
               /\ ~includes(unit.imgTag, "loading="))
                  => unit.result = openingToken(unit.imgTag) \o LazyAttribute
                                       \o sliceFrom(unit.imgTag, 4)

-----------------------------------------------------------------------------
(* C21 .. C22                                                              *)

\* the img element of the block optimizeMarkdownImage emits
imgElement(block) ==
    SubSeq(block, indexOf(block, "<img", 0) + 1, Len(block) - Len("\n</picture>"))

\* out is doc with every changed reference replaced at its original offset
correctlyReassembled(doc, out) ==
    LET imgs == analyzeImages(doc)
    IN  out = replaceAll(doc, imgs, changed(imgs))

\* optimizeImageReferences has just returned from a second pass, over the
\* string its first pass returned
ReturnedAgain == pc = "returned" /\ unit.fn = "optimizeImageReferences"

\* C21: optimizeHtmlImage returns its own output unchanged; it returns the
\* img element of the block of the markdown asset rewrite unchanged; and so
\* a second optimizeImageReferences pass over a correctly reassembled
\* document returns it unchanged and adds 0 to the counter
C21_SecondPassChangesNothing ==
    /\ unit.fn = "optimizeHtmlImage"
           => optimizeHtmlImage(unit.result, unit.src) = unit.result
    /\ (unit.fn = "optimizeMarkdownImage" /\ startsWith(unit.result, PictureOpen))
           => optimizeHtmlImage(imgElement(unit.result), unit.src)
                  = imgElement(unit.result)
    /\ (ReturnedAgain /\ correctlyReassembled(unit.content, unit.result))
           => /\ optimizedContent = content
              /\ stats.imagesOptimized = statsAtCall.imagesOptimized

\* the files whose processFile call returned early at "No images found"
withoutImages == Range(filesLogged("No images found"))

\* the files processFile went through with their content unchanged
unchangedFiles == Range(filesLogged("Already optimized"))

\* the files processFile went through and wrote
writtenFiles == Range(filesLogged("Optimized"))

\* the texts createBackup has copied of file f
backupsOf(f) == {backups[k].content : k \in {j \in 1 .. Len(backups) : backups[j].file = f}}

\* what holds in every state of a run, whatever backupFiles is: a file found
\* to hold no image reference is neither backed up nor counted, and filesProcessed
\* counts the files gone through, written or unchanged
filesAccounted ==
    /\ \A f \in withoutImages :
           backupsOf(f) = {} /\ f \notin unchangedFiles \cup writtenFiles
    /\ stats.filesProcessed = Cardinality(unchangedFiles \cup writtenFiles)
    /\ unchangedFiles \cap writtenFiles = {}

\* what holds of every step of a run: the text of a file changes only where
\* processFile compares, only when the optimized content differs from the
\* content read, and to the optimized content; a file gone through unchanged
\* is not written, and the call on a file without image references returns
\* with nothing written, copied or counted; "No images found" is logged only
\* of a file whose text holds no image reference
writeOnlyWhenChanged ==
    /\ disk' # disk
           => /\ pc = "writeFileSync"
              /\ optimizedContent # content
              /\ content = disk[filePath]
              /\ disk' = [disk EXCEPT ![filePath] = optimizedContent]
              /\ filePath \in Range(filesLogged("Optimized")')
    /\ Range(filesLogged("Optimized")') # writtenFiles => disk' # disk
    /\ (pc = "writeFileSync" /\ optimizedContent = content)
           => filePath \in Range(filesLogged("Already optimized")')
    /\ (pc = "processFile" /\ analyzeImages(disk[filePath]) = <<>>)
           => /\ fileIndex' = fileIndex + 1
              /\ UNCHANGED <<disk, backups, stats>>
    /\ (pc = "processFile" /\ Range(filesLogged("No images found")') # withoutImages)
           => analyzeImages(disk[filePath]) = <<>>

\* C22 as the claim states it: a file with no image reference is neither
\* backed up nor written nor counted, and every file gone through with
\* references and unchanged content has been backed up, whatever the options
C22_UnchangedFileBackedUp ==
    /\ filesAccounted
    /\ \A f \in unchangedFiles : backupsOf(f) = {disk[f]}

\* C22 amended: processFile writes a file if and only if it reached the
\* comparison and the optimized content differs from the content read (and
\* writeFileSync did not fail); a file with no image reference is neither
\* backed up nor written nor counted in filesProcessed; a file with
\* references whose content is unchanged is counted in filesProcessed and not
\* written, and is backed up when backupFiles is enabled: with --no-backup no
\* file is backed up
C22_WriteIffChangedBackupIfEnabled ==
    /\ [](/\ filesAccounted
          /\ \A f \in unchangedFiles :
                 backupsOf(f) = IF options.backupFiles THEN {disk[f]} ELSE {}
          /\ \A f \in writtenFiles :
                 options.backupFiles
                     => Cardinality(backupsOf(f)) = 1 /\ disk[f] \notin backupsOf(f))
    /\ [][writeOnlyWhenChanged]_vars

\* C22 witness: of two files the first had no image reference and the second
\* a reference that was not rewritten: only the second was backed up and
\* counted, and neither was written
C22_Witness ==
    /\ pc = "done"
    /\ options.backupFiles
    /\ disk = <<"see ", "![a](x.png)">>
    /\ withoutImages = {1} /\ unchangedFiles = {2} /\ writtenFiles = {}
    /\ backups = <<[file |-> 2, content |-> "![a](x.png)"]>>
    /\ stats.filesProcessed = 1 /\ stats.backupsCreated = 1

=============================================================================
